---- MODULE Spec2Model ----
(***************************************************************************)
(* Model of the offline synchronisation engine of the GateKeeper client:   *)
(* the Main component (src/src/components/Search.tsx, lines 59-364), the   *)
(* IndexedDB layer (src/src/lib/db.ts) and the sync API client             *)
(* (src/src/api/client.ts).                                                *)
(*                                                                         *)
(* React state is modelled in two layers: the state variables hold the     *)
(* latest values passed to the setters, `rendered` holds the values of the *)
(* last committed render, which are the values the useCallback/useMemo     *)
(* closures (handleSync, pendingEntries, the interval effect) read.        *)
(***************************************************************************)
EXTENDS Integers, Sequences, FiniteSets, TLC

\* ---------------------------------------------------------------- bounds
MaxLocal == 2      \* number of records the operator can create locally
MaxTime  == 2      \* last instant of the wall clock
MaxRuns  == 2      \* handleSync invocations in flight at the same time
MaxPull  == 1      \* longest pull response (number of entries)
MaxOverlapLocal == 1 \* locally created records while invocations overlap
MaxMergeLocal  == 2 \* longest local list handed to the merge loop on its own
MaxMergePulled == 2 \* longest pull result handed to the merge loop on its own

NoTime == 0        \* lastSyncTime === null / app-state key absent
NoId   == 0        \* recordIdToSync === undefined

LocalIds  == 1..MaxLocal            \* crypto.randomUUID() of handleLogEntry
ServerIds == {MaxLocal + 1}         \* ids of records created elsewhere
LocalPayloads == {"a"}              \* what the operator types into the form
ServerPayload == "b"                \* content of a record as another client wrote it
ServerTs      == 0                  \* client_ts of a record as another client wrote it

VARIABLES
    now,           \* wall clock (new Date())
    entries,       \* useState<Entry[]>
    isOnline,      \* useState(navigator.onLine); also navigator.onLine itself
    isSyncing,     \* useState(false)
    syncError,     \* useState<string | null>
    lastSyncTime,  \* useState<Date | null>
    rendered,      \* values captured by the closures of the committed render
    dbEntries,     \* IndexedDB object store 'entries', keyed by record_id
    dbLastSync,    \* IndexedDB 'app-state' value under key 'lastSyncTime'
    runs,          \* the handleSync invocations that went past the guard
    saveQ,         \* readwrite transactions queued on 'entries' (run indexes)
    stateQ,        \* readwrite transactions queued on 'app-state'
    mPhase, mLocal, mPulled, mOnce, mTwice, \* the merge loop on its own
    tElapsed,      \* seconds since the effect created the interval (setInterval)
    tWaited        \* seconds the effect has had an interval with no invocation started

vars == <<now, entries, isOnline, isSyncing, syncError,
          lastSyncTime, rendered, dbEntries, dbLastSync, runs, saveQ, stateQ,
          mPhase, mLocal, mPulled, mOnce, mTwice, tElapsed, tWaited>>

reactVars == <<entries, isOnline, isSyncing, syncError, lastSyncTime>>
mergeVars == <<mPhase, mLocal, mPulled, mOnce, mTwice>>
timerVars == <<tElapsed, tWaited>>

\* ------------------------------------------------------------ data helpers
SeqIds(es) == {es[i].record_id : i \in 1..Len(es)}

IsPendingEntry(e) == e.isPending

\* const pendingEntries = useMemo(() => entries.filter(e => e.isPending))
pendingEntries(es) == SelectSeq(es, IsPendingEntry)

NoError == [kind |-> "null", count |-> 0]
\* error.message of what a call threw: the text names what failed
ErrorThrown(call) == [kind |-> call, count |-> 0]
RejectedWarning(n) == [kind |-> "rejected", count |-> n]

\* the values a render captures
Snapshot(es, online, syncing, lst) ==
    [entries |-> es, isOnline |-> online, isSyncing |-> syncing,
     lastSyncTime |-> lst]

BlankSnapshot(online) == Snapshot(<<>>, online, FALSE, NoTime)

\* ------------------------------------------------------------- db.ts
RECURSIVE SortedByKey(_, _)
SortedByKey(db, keys) ==
    IF keys = {} THEN <<>>
    ELSE LET k == CHOOSE x \in keys : \A y \in keys : x <= y
         IN <<db[k]>> \o SortedByKey(db, keys \ {k})

\* db.getAllEntries(): getAll returns the records in key order
getAllEntries(db) == SortedByKey(db, DOMAIN db)

\* db.saveEntry(entry): put under keyPath record_id
saveEntry(db, entry) ==
    [k \in DOMAIN db \cup {entry.record_id} |->
        IF k = entry.record_id THEN entry ELSE db[k]]

\* saveEntries as it would be did it replace the content of the store
saveEntriesReplacing(db, es) ==
    [k \in SeqIds(es) |->
        es[CHOOSE i \in 1..Len(es) :
              es[i].record_id = k /\ \A j \in (i + 1)..Len(es) : es[j].record_id # k]]

\* db.saveEntries(entries): one transaction, one put per entry, in order
RECURSIVE saveEntries(_, _)
saveEntries(db, es) ==
    IF es = <<>> THEN db
    ELSE saveEntries(saveEntry(db, Head(es)), Tail(es))

\* ------------------------------------------------- handleSync, pure parts
\* pushResponse.rejected_ids is optional: present tells whether it was sent
RejectedIds(present, ids) == [present |-> present, ids |-> ids]

PushResponseOf(batchIds, acceptedIds, withIds) ==
    [accepted     |-> Cardinality(acceptedIds),
     rejected     |-> Cardinality(batchIds \ acceptedIds),
     rejected_ids |-> RejectedIds(withIds,
                                  IF withIds THEN batchIds \ acceptedIds ELSE {})]

\* entriesToSync as it would be did it not look at recordIdToSync
entriesToSyncAll(pending, recordIdToSync) == pending

\* recordIdToSync ? pendingEntries.filter(e => e.record_id === recordIdToSync)
\*                : pendingEntries
entriesToSync(pending, recordIdToSync) ==
    IF recordIdToSync # NoId
    THEN SelectSeq(pending, LAMBDA e : e.record_id = recordIdToSync)
    ELSE pending

\* pushResponse.rejected_ids?.includes(entry.record_id)
wasRejected(resp, entry) ==
    resp.rejected_ids.present /\ entry.record_id \in resp.rejected_ids.ids

\* entriesToSync.some(e => e.record_id === entry.record_id)
wasInBatch(batch, entry) == entry.record_id \in SeqIds(batch)

\* updatedEntries as it would be did it mark every record that is not
\* rejected, in the batch or not
updatedEntriesWholeList(es, batch, resp) ==
    [i \in 1..Len(es) |->
        IF wasRejected(resp, es[i]) THEN es[i]
        ELSE [es[i] EXCEPT !.isPending = FALSE]]

\* updatedEntries as it would be did it not look at rejected_ids
updatedEntriesAllSynced(es, batch, resp) ==
    [i \in 1..Len(es) |->
        IF wasInBatch(batch, es[i])
        THEN [es[i] EXCEPT !.isPending = FALSE]
        ELSE es[i]]

\* const updatedEntries = entries.map(entry => ...)
updatedEntries(es, batch, resp) ==
    [i \in 1..Len(es) |->
        IF wasRejected(resp, es[i]) THEN es[i]
        ELSE IF wasInBatch(batch, es[i])
             THEN [es[i] EXCEPT !.isPending = FALSE]
             ELSE es[i]]

\* mergedEntries.findIndex(e => e.record_id === serverEntry.record_id)
findIndex(es, id) ==
    IF id \in SeqIds(es)
    THEN CHOOSE i \in 1..Len(es) :
            /\ es[i].record_id = id
            /\ \A j \in 1..(i - 1) : es[j].record_id # id
    ELSE 0

\* { ...serverEntry, isPending: false }
Synced(serverEntry) ==
    [record_id |-> serverEntry.record_id, client_ts |-> serverEntry.client_ts,
     payload |-> serverEntry.payload, isPending |-> FALSE]

\* the body of the loop as it would be did a pending local record win
mergeOneKeepsPending(merged, serverEntry) ==
    LET existingIndex == findIndex(merged, serverEntry.record_id)
    IN IF existingIndex >= 1
       THEN IF merged[existingIndex].isPending
            THEN merged
            ELSE [merged EXCEPT ![existingIndex] = Synced(serverEntry)]
       ELSE <<Synced(serverEntry)>> \o merged

\* the body of the loop as it would be did it not look for the record
mergeOneAlwaysInserts(merged, serverEntry) ==
    <<Synced(serverEntry)>> \o merged

\* body of pulledEntries.forEach
mergeOne(merged, serverEntry) ==
    LET existingIndex == findIndex(merged, serverEntry.record_id)
    IN IF existingIndex >= 1
       THEN [merged EXCEPT ![existingIndex] = Synced(serverEntry)]
       ELSE <<Synced(serverEntry)>> \o merged

\* const mergedEntries = [...updatedEntries]; pulledEntries.forEach(...)
RECURSIVE mergedEntries(_, _)
mergedEntries(updated, pulled) ==
    IF pulled = <<>> THEN updated
    ELSE mergedEntries(mergeOne(updated, Head(pulled)), Tail(pulled))

\* ------------------------------------------------------------- run records
NoResponse == PushResponseOf({}, {}, FALSE)

\* a slot that holds no handleSync invocation
IdleRun ==
    [pc |-> "idle", pushCalls |-> 0, recordIdToSync |-> NoId,
     entries |-> <<>>, lastSyncTime |-> NoTime, entriesToSync |-> <<>>,
     pushResponse |-> NoResponse, accepted |-> {},
     updatedEntries |-> <<>>, since |-> NoTime,
     pulledEntries |-> <<>>, mergedEntries |-> <<>>,
     pullAt |-> NoTime, newSyncTime |-> NoTime]

\* the locals of an invocation that has called api.sync.push; c is its closure
NewRun(c, recordIdToSync, batch) ==
    [IdleRun EXCEPT !.pc = "push", !.pushCalls = 1,
                    !.recordIdToSync = recordIdToSync,
                    !.entries = c.entries, !.lastSyncTime = c.lastSyncTime,
                    !.entriesToSync = batch]

RunIds == 1..MaxRuns
InFlight(r) == runs[r].pc # "idle"
FreeSlots == {r \in RunIds : ~InFlight(r)}
LocalCount == Cardinality(DOMAIN dbEntries \cap LocalIds)

\* the bound on overlapping invocations: one more invocation can be followed
\* when none is in flight, or when a slot is free and the store holds at most
\* MaxOverlapLocal locally created records
CanFollow ==
    \/ FreeSlots = RunIds
    \/ FreeSlots # {} /\ LocalCount <= MaxOverlapLocal

\* the same bound for handleLogEntry: while invocations overlap the store
\* grows to at most MaxOverlapLocal locally created records
CanCreate ==
    Cardinality(RunIds \ FreeSlots) >= 2 => LocalCount < MaxOverlapLocal

CurrentSnapshot == Snapshot(entries, isOnline, isSyncing, lastSyncTime)

\* JSON.stringify({ entries }): what the gateway receives of an entry
AsSent(e) ==
    [record_id |-> e.record_id, client_ts |-> e.client_ts, payload |-> e.payload]

SentSet(es) == {AsSent(es[i]) : i \in 1..Len(es)}

\* the records of the local store the gateway holds a copy of: those it has
\* accepted before (stored with isPending false) and those of a batch it has
\* just been sent
KnownToGateway(batch) ==
    {AsSent(dbEntries[k]) : k \in {x \in DOMAIN dbEntries : ~dbEntries[x].isPending}}
    \cup SentSet(batch)

\* a pulled entry is a copy the gateway received from this client, or a
\* record another client created
ServerEntries(batch) ==
    KnownToGateway(batch) \cup
    {[record_id |-> id, client_ts |-> ServerTs, payload |-> ServerPayload] :
        id \in ServerIds}

SeqsUpTo(S, n) == UNION {[1..k -> S] : k \in 0..n}

\* ------------------------------------------------------------------ Init
Init ==
    /\ now = 1
    /\ entries = <<>>
    /\ isOnline \in BOOLEAN
    /\ isSyncing = FALSE
    /\ syncError = NoError
    /\ lastSyncTime = NoTime
    /\ rendered = BlankSnapshot(isOnline)
    /\ dbEntries = <<>>
    /\ dbLastSync = NoTime
    /\ runs = [r \in RunIds |-> IdleRun]
    /\ saveQ = <<>>
    /\ stateQ = <<>>
    /\ mPhase = "off"
    /\ mLocal = <<>> /\ mPulled = <<>> /\ mOnce = <<>> /\ mTwice = <<>>
    /\ tElapsed = 0 /\ tWaited = 0

\* AuthContext token: App renders Main only while isAuthenticated (a user and
\* a token) holds, so every render of Main sees a token
token == TRUE

\* React has committed every scheduled state update.  The render that follows
\* an update is part of the step that makes the update, except for the update
\* a timer callback makes by starting a run (setIsSyncing(true)): that render
\* is the step Render, so that a click can come before it.  A handler that
\* runs before the render of any other update sees what it would have seen
\* had it run before that update.
Committed == rendered = CurrentSnapshot

\* handleSync as it would be did its guard not look at isOnline
handleSyncNoOnlineGuard(recordIdToSync, flush) ==
    LET c == rendered
        batch == entriesToSync(pendingEntries(c.entries), recordIdToSync)
    IN /\ IF c.isSyncing \/ ~token
          THEN UNCHANGED <<reactVars, rendered, runs>>
          ELSE IF Len(batch) = 0
          THEN /\ isSyncing' = FALSE
               /\ syncError' = NoError
               /\ UNCHANGED <<entries, isOnline, lastSyncTime, runs>>
               /\ rendered' = IF flush
                              THEN Snapshot(entries, isOnline, FALSE, lastSyncTime)
                              ELSE rendered
          ELSE /\ CanFollow
               /\ LET r == CHOOSE x \in FreeSlots : \A y \in FreeSlots : x <= y
                  IN runs' = [runs EXCEPT ![r] = NewRun(c, recordIdToSync, batch)]
               /\ isSyncing' = TRUE
               /\ syncError' = NoError
               /\ UNCHANGED <<entries, isOnline, lastSyncTime>>
               /\ rendered' = IF flush
                              THEN Snapshot(entries, isOnline, TRUE, lastSyncTime)
                              ELSE rendered
       /\ UNCHANGED <<now, dbEntries, dbLastSync, saveQ, stateQ, mergeVars>>

\* ------------------------------------------------------- handleSync, start
\* Search.tsx 154-176: the guard, setIsSyncing(true), the batch, the push call.
\* The closure values are those of the committed render.  flush tells whether
\* React commits the state updates of the handler before it returns control
\* (a click handler) or in a later task (a timer callback).
handleSync(recordIdToSync, flush) ==
    LET c == rendered
        batch == entriesToSync(pendingEntries(c.entries), recordIdToSync)
    IN /\ IF ~c.isOnline \/ c.isSyncing \/ ~token
          THEN UNCHANGED <<reactVars, rendered, runs>>
          ELSE IF Len(batch) = 0
          THEN /\ isSyncing' = FALSE
               /\ syncError' = NoError
               /\ UNCHANGED <<entries, isOnline, lastSyncTime, runs>>
               /\ rendered' = IF flush
                              THEN Snapshot(entries, isOnline, FALSE, lastSyncTime)
                              ELSE rendered
          ELSE /\ CanFollow
               /\ LET r == CHOOSE x \in FreeSlots : \A y \in FreeSlots : x <= y
                  IN runs' = [runs EXCEPT ![r] = NewRun(c, recordIdToSync, batch)]
               /\ isSyncing' = TRUE
               /\ syncError' = NoError
               /\ UNCHANGED <<entries, isOnline, lastSyncTime>>
               /\ rendered' = IF flush
                              THEN Snapshot(entries, isOnline, TRUE, lastSyncTime)
                              ELSE rendered
       /\ UNCHANGED <<now, dbEntries, dbLastSync, saveQ, stateQ, mergeVars>>

\* const isSyncButtonDisabled = !isOnline || isSyncing || pendingEntries.length === 0
isSyncButtonDisabled ==
    \/ ~rendered.isOnline
    \/ rendered.isSyncing
    \/ Len(pendingEntries(rendered.entries)) = 0

\* the Sync All button: onClick={() => handleSync()}
ClickSyncAll ==
    /\ ~isSyncButtonDisabled
    /\ handleSync(NoId, TRUE)
    /\ UNCHANGED timerVars

\* EntryList: the Pending button of a pending entry, onSync(entry.record_id)
ClickSyncEntry(id) ==
    /\ id \in SeqIds(pendingEntries(rendered.entries))
    /\ handleSync(id, TRUE)
    /\ UNCHANGED timerVars

\* the effect as it would be were the interval a free-running one
intervalArmedWhileOnline ==
    /\ rendered.isOnline
    /\ token

\* the background sync effect: the interval exists while the committed render
\* is online, has a token and has pending entries
intervalArmed ==
    /\ rendered.isOnline
    /\ token
    /\ Len(pendingEntries(rendered.entries)) # 0

\* setInterval(() => { handleSync(); }, 30000): the callback runs at some
\* moment while the interval exists; how long the interval has existed is
\* followed in SpecTimer only
IntervalTick ==
    /\ intervalArmed
    /\ handleSync(NoId, FALSE)
    /\ UNCHANGED timerVars

\* --------------------------------------------- handleSync, after each await
\* the return as it would be were setIsSyncing(false) the last statement of
\* the try and not a finally: a throw leaves isSyncing as it is
SettleInsideTry(r, err) ==
    /\ runs' = [runs EXCEPT ![r] = IdleRun]
    /\ syncError' = err
    /\ isSyncing' = (isSyncing /\ err.kind \in {"push", "pull", "saveEntries", "setAppState"})
    /\ rendered' = Snapshot(entries, isOnline, isSyncing', lastSyncTime)

\* catch: setSyncError(message); finally: setIsSyncing(false); the invocation
\* returns
Settle(r, err) ==
    /\ runs' = [runs EXCEPT ![r] = IdleRun]
    /\ syncError' = err
    /\ isSyncing' = FALSE
    /\ rendered' = Snapshot(entries, isOnline, FALSE, lastSyncTime)

\* the failed push as it would be were only the push call inside the try:
\* the invocation goes on to the pull
PushFailStillPulls(r) ==
    /\ runs[r].pc = "push"
    /\ runs' = [runs EXCEPT
           ![r].pc = "pull",
           ![r].updatedEntries = runs[r].entries,
           ![r].since = runs[r].lastSyncTime]
    /\ syncError' = ErrorThrown("push")
    /\ UNCHANGED <<now, entries, isOnline, isSyncing, lastSyncTime, rendered,
                   dbEntries, dbLastSync, saveQ, stateQ, mergeVars, timerVars>>

\* the catch as it would be did it mark the batch as synced all the same
PushFailMarksSynced(r) ==
    /\ runs[r].pc = "push"
    /\ runs' = [runs EXCEPT ![r] = IdleRun]
    /\ entries' = updatedEntries(entries, runs[r].entriesToSync, NoResponse)
    /\ syncError' = ErrorThrown("push")
    /\ isSyncing' = FALSE
    /\ rendered' = Snapshot(entries', isOnline, FALSE, lastSyncTime)
    /\ UNCHANGED <<now, isOnline, lastSyncTime, dbEntries,
                   dbLastSync, saveQ, stateQ, mergeVars, timerVars>>

\* the push call threw (network error, timeout, non-2xx: fetchWithAuth)
PushFail(r) ==
    /\ runs[r].pc = "push"
    /\ Settle(r, ErrorThrown("push"))
    /\ UNCHANGED <<now, entries, isOnline, lastSyncTime, dbEntries,
                   dbLastSync, saveQ, stateQ, mergeVars, timerVars>>

\* the push call returned: Search.tsx 178-199, up to the pull call
PushResponse(r, acceptedIds, withIds) ==
    /\ runs[r].pc = "push"
    /\ acceptedIds \subseteq SeqIds(runs[r].entriesToSync)
    /\ withIds => acceptedIds # SeqIds(runs[r].entriesToSync)
    /\ LET resp == PushResponseOf(SeqIds(runs[r].entriesToSync), acceptedIds, withIds)
       IN runs' = [runs EXCEPT
              ![r].pc = "pull",
              ![r].pushResponse = resp,
              ![r].accepted = acceptedIds,
              ![r].updatedEntries =
                  updatedEntries(runs[r].entries, runs[r].entriesToSync, resp),
              ![r].since = runs[r].lastSyncTime]
    /\ UNCHANGED <<now, reactVars, rendered, dbEntries, dbLastSync, saveQ, stateQ, mergeVars, timerVars>>

\* the catch as it would be were the push outcome put into the state
\* before the pull is awaited
PullFailKeepsPushOutcome(r) ==
    /\ runs[r].pc = "pull"
    /\ runs' = [runs EXCEPT ![r] = IdleRun]
    /\ entries' = runs[r].updatedEntries
    /\ syncError' = ErrorThrown("pull")
    /\ isSyncing' = FALSE
    /\ rendered' = Snapshot(entries', isOnline, FALSE, lastSyncTime)
    /\ UNCHANGED <<now, isOnline, lastSyncTime, dbEntries,
                   dbLastSync, saveQ, stateQ, mergeVars, timerVars>>

\* the pull call threw
PullFail(r) ==
    /\ runs[r].pc = "pull"
    /\ Settle(r, ErrorThrown("pull"))
    /\ UNCHANGED <<now, entries, isOnline, lastSyncTime, dbEntries,
                   dbLastSync, saveQ, stateQ, mergeVars, timerVars>>

\* the pull call returned: Search.tsx 201-220, the merge and the saveEntries call
PullResponse(r, pulled) ==
    /\ runs[r].pc = "pull"
    /\ pulled \in SeqsUpTo(ServerEntries(runs[r].entriesToSync), MaxPull)
    /\ runs' = [runs EXCEPT ![r] =
           [IdleRun EXCEPT
               !.pc = "save",
               !.pushCalls = runs[r].pushCalls,
               !.pushResponse = runs[r].pushResponse,
               !.pulledEntries = pulled,
               !.mergedEntries = mergedEntries(runs[r].updatedEntries, pulled),
               !.pullAt = now]]
    /\ saveQ' = Append(saveQ, r)
    /\ UNCHANGED <<now, reactVars, rendered, dbEntries, dbLastSync, stateQ, mergeVars, timerVars>>

\* the rejected saveEntries as it would be were setEntries called before
\* the write is awaited
SaveFailSetsEntries(r) ==
    /\ runs[r].pc = "save"
    /\ Head(saveQ) = r
    /\ saveQ' = Tail(saveQ)
    /\ runs' = [runs EXCEPT ![r] = IdleRun]
    /\ entries' = runs[r].mergedEntries
    /\ syncError' = ErrorThrown("saveEntries")
    /\ isSyncing' = FALSE
    /\ rendered' = Snapshot(entries', isOnline, FALSE, lastSyncTime)
    /\ UNCHANGED <<now, isOnline, lastSyncTime, dbEntries,
                   dbLastSync, stateQ, mergeVars, timerVars>>

\* the rejected saveEntries as it would be were the watermark set before
\* the write is awaited
SaveFailAdvances(r) ==
    /\ runs[r].pc = "save"
    /\ Head(saveQ) = r
    /\ saveQ' = Tail(saveQ)
    /\ runs' = [runs EXCEPT ![r] = IdleRun]
    /\ lastSyncTime' = now
    /\ syncError' = ErrorThrown("saveEntries")
    /\ isSyncing' = FALSE
    /\ rendered' = Snapshot(entries, isOnline, FALSE, lastSyncTime')
    /\ UNCHANGED <<now, entries, isOnline, dbEntries,
                   dbLastSync, stateQ, mergeVars, timerVars>>

\* db.saveEntries rejected: the transaction aborted, nothing was written
SaveFail(r) ==
    /\ runs[r].pc = "save"
    /\ Head(saveQ) = r
    /\ saveQ' = Tail(saveQ)
    /\ Settle(r, ErrorThrown("saveEntries"))
    /\ UNCHANGED <<now, entries, isOnline, lastSyncTime, dbEntries,
                   dbLastSync, stateQ, mergeVars, timerVars>>

\* db.saveEntries resolved: Search.tsx 221-226, up to the setAppState call
SaveDone(r) ==
    /\ runs[r].pc = "save"
    /\ Head(saveQ) = r
    /\ saveQ' = Tail(saveQ)
    /\ dbEntries' = saveEntries(dbEntries, runs[r].mergedEntries)
    /\ runs' = [runs EXCEPT ![r] =
           [IdleRun EXCEPT
               !.pc = "appstate",
               !.pushCalls = runs[r].pushCalls,
               !.pushResponse = runs[r].pushResponse,
               !.pullAt = runs[r].pullAt,
               !.newSyncTime = now]]
    /\ entries' = runs[r].mergedEntries
    /\ lastSyncTime' = now
    /\ rendered' = Snapshot(entries', isOnline, isSyncing, lastSyncTime')
    /\ stateQ' = Append(stateQ, r)
    /\ UNCHANGED <<now, isOnline, isSyncing, syncError, dbLastSync, mergeVars, timerVars>>

\* db.setAppState rejected
AppStateFail(r) ==
    /\ runs[r].pc = "appstate"
    /\ Head(stateQ) = r
    /\ stateQ' = Tail(stateQ)
    /\ Settle(r, ErrorThrown("setAppState"))
    /\ UNCHANGED <<now, entries, isOnline, lastSyncTime, dbEntries,
                   dbLastSync, saveQ, mergeVars, timerVars>>

\* the resolved setAppState as it would be did the transactions on
\* 'app-state' commit in any order
AppStateDoneAnyOrder(r) ==
    /\ runs[r].pc = "appstate"
    /\ stateQ' = SelectSeq(stateQ, LAMBDA x : x # r)
    /\ dbLastSync' = runs[r].newSyncTime
    /\ LET rej == runs[r].pushResponse.rejected_ids
           warn == rej.present /\ Cardinality(rej.ids) > 0
       IN Settle(r, IF warn THEN RejectedWarning(Cardinality(rej.ids))
                    ELSE syncError)
    /\ UNCHANGED <<now, entries, isOnline, lastSyncTime, dbEntries,
                   saveQ, mergeVars, timerVars>>

\* db.setAppState resolved: Search.tsx 228-238, the warning and the finally
AppStateDone(r) ==
    /\ runs[r].pc = "appstate"
    /\ Head(stateQ) = r
    /\ stateQ' = Tail(stateQ)
    /\ dbLastSync' = runs[r].newSyncTime
    /\ LET rej == runs[r].pushResponse.rejected_ids
           warn == rej.present /\ Cardinality(rej.ids) > 0
       IN Settle(r, IF warn THEN RejectedWarning(Cardinality(rej.ids))
                    ELSE syncError)
    /\ UNCHANGED <<now, entries, isOnline, lastSyncTime, dbEntries,
                   saveQ, mergeVars, timerVars>>

\* ---------------------------------------------------------- handleLogEntry
\* crypto.randomUUID(): an id no record has had
FreshIds == LocalIds \ DOMAIN dbEntries

newEntry(id, payload) ==
    [record_id |-> id, client_ts |-> now, payload |-> payload, isPending |-> TRUE]

\* Search.tsx 113-137: db.saveEntry(newEntry), then setEntries(prev => [newEntry, ...prev]);
\* ok = FALSE is the rejected put (the alert), which stores nothing
handleLogEntry(payload, ok) ==
    /\ FreshIds # {}
    /\ CanCreate
    /\ IF ~token \/ ~ok
       THEN UNCHANGED <<entries, rendered, dbEntries, runs>>
       ELSE LET id == CHOOSE x \in FreshIds : \A y \in FreshIds : x <= y
            IN /\ dbEntries' = saveEntry(dbEntries, newEntry(id, payload))
               /\ entries' = <<newEntry(id, payload)>> \o entries
               /\ rendered' = Snapshot(entries', isOnline, isSyncing, lastSyncTime)
               /\ UNCHANGED runs
    /\ UNCHANGED <<now, isOnline, isSyncing, syncError, lastSyncTime,
                   dbLastSync, saveQ, stateQ, mergeVars>>

\* ------------------------------------------------------------------- React
\* React commits a render: the closures now hold the current state
Render ==
    /\ ~Committed
    /\ rendered' = CurrentSnapshot
    /\ UNCHANGED <<now, reactVars, dbEntries, dbLastSync, runs, saveQ, stateQ, mergeVars, timerVars>>

\* window 'online' event: setIsOnline(true)
setOnline ==
    /\ ~isOnline
    /\ isOnline' = TRUE
    /\ rendered' = Snapshot(entries, TRUE, isSyncing, lastSyncTime)
    /\ UNCHANGED <<now, entries, isSyncing, syncError, lastSyncTime,
                   dbEntries, dbLastSync, runs, saveQ, stateQ, mergeVars, timerVars>>

\* window 'offline' event: setIsOnline(false)
setOffline ==
    /\ isOnline
    /\ isOnline' = FALSE
    /\ rendered' = Snapshot(entries, FALSE, isSyncing, lastSyncTime)
    /\ UNCHANGED <<now, entries, isSyncing, syncError, lastSyncTime,
                   dbEntries, dbLastSync, runs, saveQ, stateQ, mergeVars, timerVars>>

\* Main is unmounted and mounted again (the operator leaves the /checkpoint
\* route and returns, logs out and in, or reloads the page) while no
\* handleSync invocation is in flight: the new instance starts from the
\* useState initial values and loadEntriesFromDB (Search.tsx 94-111) runs
loadEntriesFromDB ==
    /\ \A r \in RunIds : ~InFlight(r)
    /\ entries' = getAllEntries(dbEntries)
    /\ lastSyncTime' = dbLastSync
    /\ isSyncing' = FALSE
    /\ syncError' = NoError
    /\ rendered' = Snapshot(entries', isOnline, FALSE, lastSyncTime')
    /\ UNCHANGED <<now, isOnline, dbEntries, dbLastSync, runs, saveQ, stateQ, mergeVars, timerVars>>

\* time passes
Tick ==
    /\ now < MaxTime
    /\ now' = now + 1
    /\ UNCHANGED <<reactVars, rendered, dbEntries, dbLastSync, runs, saveQ,
                   stateQ, mergeVars, timerVars>>

\* -------------------------------------------------------------------- Next
Next ==
    \/ ClickSyncAll
    \/ \E id \in LocalIds \cup ServerIds : ClickSyncEntry(id)
    \/ IntervalTick
    \/ \E r \in RunIds : PushFail(r)
    \/ \E r \in RunIds : \E acc \in SUBSET LocalIds : \E withIds \in BOOLEAN :
          PushResponse(r, acc, withIds)
    \/ \E r \in RunIds : PullFail(r)
    \/ \E r \in RunIds :
          \E pulled \in SeqsUpTo(ServerEntries(runs[r].entriesToSync), MaxPull) :
              PullResponse(r, pulled)
    \/ \E r \in RunIds : SaveFail(r)
    \/ \E r \in RunIds : SaveDone(r)
    \/ \E r \in RunIds : AppStateFail(r)
    \/ \E r \in RunIds : AppStateDone(r)
    \/ \E payload \in LocalPayloads : \E ok \in BOOLEAN :
          handleLogEntry(payload, ok) /\ UNCHANGED timerVars
    \/ Render
    \/ setOnline
    \/ setOffline
    \/ loadEntriesFromDB
    \/ Tick

Spec == Init /\ [][Next]_vars

\* ------------------------------------------------- the merge loop on its own
\* Search.tsx 201-217 applied to any local list and any pull response
MergePayloads == LocalPayloads \cup {ServerPayload}
MergeIds == LocalIds \cup ServerIds

\* a list of entries as Main holds it: no two entries share a record_id
DistinctIds(es) == \A i, j \in 1..Len(es) : es[i].record_id = es[j].record_id => i = j

MergeLocalEntries ==
    [record_id : MergeIds, client_ts : {1}, payload : MergePayloads,
     isPending : BOOLEAN]

MergePulledEntries ==
    [record_id : MergeIds, client_ts : {ServerTs, 1}, payload : MergePayloads]

InitMerge ==
    /\ now = 1
    /\ entries = <<>>
    /\ isOnline = TRUE
    /\ isSyncing = FALSE
    /\ syncError = NoError
    /\ lastSyncTime = NoTime
    /\ rendered = BlankSnapshot(isOnline)
    /\ dbEntries = <<>>
    /\ dbLastSync = NoTime
    /\ runs = [r \in RunIds |-> IdleRun]
    /\ saveQ = <<>>
    /\ stateQ = <<>>
    /\ mPhase = "ready"
    /\ mLocal \in {es \in SeqsUpTo(MergeLocalEntries, MaxMergeLocal) : DistinctIds(es)}
    /\ mPulled \in SeqsUpTo(MergePulledEntries, MaxMergePulled)
    /\ mOnce = <<>>
    /\ mTwice = <<>>
    /\ tElapsed = 0 /\ tWaited = 0

\* the merge loop over the pull response
MergeOnce ==
    /\ mPhase = "ready"
    /\ mPhase' = "once"
    /\ mOnce' = mergedEntries(mLocal, mPulled)
    /\ UNCHANGED <<now, reactVars, rendered, dbEntries, dbLastSync, runs, saveQ,
                   stateQ, mLocal, mPulled, mTwice, timerVars>>

\* the merge loop over the same pull response once more, as the next run
\* does when the gateway returns it again
MergeTwice ==
    /\ mPhase = "once"
    /\ mPhase' = "twice"
    /\ mTwice' = mergedEntries(mOnce, mPulled)
    /\ UNCHANGED <<now, reactVars, rendered, dbEntries, dbLastSync, runs, saveQ,
                   stateQ, mLocal, mPulled, mOnce, timerVars>>

NextMerge == MergeOnce \/ MergeTwice

SpecMerge == InitMerge /\ [][NextMerge]_vars

\* ------------------------------------------------------------------ claims
InFlightRuns == {r \in RunIds : InFlight(r)}

\* the entry of a list under a record_id (the first, as findIndex finds it)
EntryOf(es, id) == es[findIndex(es, id)]

\* steps of the invocation in slot r
Starts(r)      == runs[r].pc = "idle" /\ runs'[r].pc = "push"
PushFails(r)   == runs[r].pc = "push" /\ runs'[r].pc = "idle"
PullReturns(r) == runs[r].pc = "pull" /\ runs'[r].pc = "save"
Commits(r)     == runs[r].pc = "save" /\ runs'[r].pc = "appstate"
Persists(r)    == runs[r].pc = "appstate" /\ runs'[r].pc = "idle"
                  /\ dbLastSync' = runs[r].newSyncTime

\* C1: at most one reconciliation run is in progress at any time
C1_SingleFlight == Cardinality(InFlightRuns) <= 1

\* C2: a run whose push call fails leaves every record, in memory and in the
\* store, and the watermark, in memory and persisted, as they were: neither
\* its start nor its failure changes any of them
C2_PushFailureChangesNothing ==
    [][\A r \in RunIds :
          Starts(r) \/ PushFails(r) =>
              UNCHANGED <<entries, dbEntries, lastSyncTime, dbLastSync>>]_vars

\* a push has failed: the records are pending and no watermark exists
C2_Witness ==
    /\ syncError = ErrorThrown("push")
    /\ Len(pendingEntries(entries)) >= 1
    /\ \A k \in DOMAIN dbEntries : dbEntries[k].isPending
    /\ lastSyncTime = NoTime
    /\ dbLastSync = NoTime

\* C3: when a run commits, every record in memory that is not part of what
\* the run writes (a record created while it was in flight) is still in
\* memory and in the store afterwards, as it was
C3_CreatedDuringRunKept ==
    [][\A r \in RunIds :
          Commits(r) =>
              \A i \in 1..Len(entries) :
                  (/\ entries[i].record_id \in LocalIds
                   /\ entries[i].record_id \notin SeqIds(runs[r].mergedEntries))
                  => /\ \E j \in 1..Len(entries') : entries'[j] = entries[i]
                     /\ entries[i].record_id \in DOMAIN dbEntries'
                     /\ dbEntries'[entries[i].record_id] = entries[i]]_vars

\* C4: the watermark changes, in memory, only in the step in which a run whose
\* push was answered and whose pull succeeded has had its merged records
\* written to the store (or when Main mounts and reads the persisted value),
\* and the persisted watermark changes only in the step that follows for
\* that run
C4_WatermarkOnlyAfterCommit ==
    [][/\ lastSyncTime' # lastSyncTime =>
            \/ \E r \in RunIds :
                  /\ Commits(r)
                  /\ runs[r].pushResponse.accepted + runs[r].pushResponse.rejected >= 1
                  /\ runs[r].pullAt # NoTime
                  /\ dbEntries' = saveEntries(dbEntries, runs[r].mergedEntries)
            \/ /\ InFlightRuns = {}
               /\ lastSyncTime' = dbLastSync
       /\ dbLastSync' # dbLastSync =>
            \E r \in RunIds : Persists(r) /\ runs[r].pullAt # NoTime]_vars

\* a run has advanced the watermark in memory and is about to persist it
C4_Witness ==
    \E r \in RunIds :
        /\ runs[r].pc = "appstate"
        /\ lastSyncTime = runs[r].newSyncTime
        /\ dbLastSync # lastSyncTime

\* C5: the watermark a run sets is no later than the instant its pull
\* response was received, which is no earlier than the instant it covers
C5_WatermarkWithinPull ==
    \A r \in RunIds :
        runs[r].pc = "appstate" => runs[r].newSyncTime <= runs[r].pullAt

LastPulled(pulled, id) ==
    pulled[CHOOSE i \in 1..Len(pulled) :
              /\ pulled[i].record_id = id
              /\ \A j \in (i + 1)..Len(pulled) : pulled[j].record_id # id]

\* C7: after the merge, the one local record under each pulled id equals the
\* pulled version (the last one the response gives) in every field and has
\* isPending false, whether the id was present locally or not
C7_ServerWinsMerge ==
    mPhase # "ready" =>
        /\ DistinctIds(mOnce)
        /\ \A id \in SeqIds(mPulled) :
              \E i \in 1..Len(mOnce) : mOnce[i] = Synced(LastPulled(mPulled, id))
        /\ \A i \in 1..Len(mLocal) :
              mLocal[i].record_id \notin SeqIds(mPulled) =>
                  \E j \in 1..Len(mOnce) : mOnce[j] = mLocal[i]

\* a pending local record has been overwritten by a pulled version that
\* differs from it, and a pulled record without local counterpart inserted
C7_Witness ==
    /\ mPhase = "once"
    /\ \E i \in 1..Len(mLocal) :
          /\ mLocal[i].isPending
          /\ mLocal[i].record_id \in SeqIds(mPulled)
          /\ LastPulled(mPulled, mLocal[i].record_id).payload # mLocal[i].payload
    /\ \E id \in SeqIds(mPulled) : id \notin SeqIds(mLocal)

\* C8: a record whose flag a run turns to isPending false on the push
\* response is one the gateway accepted in that push
C8_SyncedOnlyIfAccepted ==
    \A r \in RunIds :
        runs[r].pc = "pull" =>
            \A i \in 1..Len(runs[r].entries) :
                (runs[r].entries[i].isPending /\ ~runs[r].updatedEntries[i].isPending)
                => runs[r].entries[i].record_id \in runs[r].accepted

\* C9: on a push response with rejected > 0 and no rejected_ids, every record
\* of the batch keeps isPending true (the response identifies no record as
\* accepted)
C9_NoRejectedIdsKeepsPending ==
    \A r \in RunIds :
        (/\ runs[r].pc = "pull"
         /\ runs[r].pushResponse.rejected > 0
         /\ ~runs[r].pushResponse.rejected_ids.present)
        => \A i \in 1..Len(runs[r].entries) :
              wasInBatch(runs[r].entriesToSync, runs[r].entries[i])
              => runs[r].updatedEntries[i].isPending

\* what a run holds for a record after its merge is the record as the run
\* found it, pending, sent once, and part of the batch of a full run that
\* starts from what the run writes
KeptPending(r, id) ==
    /\ id \in SeqIds(runs'[r].mergedEntries)
    /\ EntryOf(runs'[r].mergedEntries, id) = EntryOf(runs[r].entries, id)
    /\ EntryOf(runs'[r].mergedEntries, id).isPending
    /\ runs'[r].pushCalls = 1
    /\ id \in SeqIds(entriesToSync(pendingEntries(runs'[r].mergedEntries), NoId))

\* what a run writes at its commit for a record is what its merge holds
WrittenAsMerged(r, id) ==
    /\ id \in SeqIds(entries')
    /\ EntryOf(entries', id) = EntryOf(runs[r].mergedEntries, id)
    /\ id \in DOMAIN dbEntries'
    /\ dbEntries'[id] = EntryOf(runs[r].mergedEntries, id)

\* C10 as stated: every record the push response names as rejected is, in
\* what the run writes, pending and unchanged, sent once, and in the batch
\* of the next full run
C10_RejectedStayPending ==
    [][\A r \in RunIds :
          /\ PullReturns(r) =>
                \A id \in runs[r].pushResponse.rejected_ids.ids : KeptPending(r, id)
          /\ Commits(r) =>
                \A id \in runs[r].pushResponse.rejected_ids.ids :
                    WrittenAsMerged(r, id)]_vars

\* C10, amended: the same for every record the push response names as
\* rejected and the pull response of the run does not contain
C10_RejectedStayPendingUnlessPulled ==
    [][\A r \in RunIds :
          /\ PullReturns(r) =>
                \A id \in runs[r].pushResponse.rejected_ids.ids :
                    id \notin SeqIds(runs'[r].pulledEntries) => KeptPending(r, id)
          /\ Commits(r) =>
                \A id \in runs[r].pushResponse.rejected_ids.ids :
                    WrittenAsMerged(r, id)]_vars

\* a run was told that a record is rejected, has pulled another record, and
\* holds the rejected record, still pending, in what it is about to write
C10_Witness ==
    \E r \in RunIds :
        /\ runs[r].pc = "save"
        /\ runs[r].pushResponse.rejected_ids.ids # {}
        /\ runs[r].pulledEntries # <<>>
        /\ \A id \in runs[r].pushResponse.rejected_ids.ids :
              /\ id \notin SeqIds(runs[r].pulledEntries)
              /\ id \in SeqIds(pendingEntries(runs[r].mergedEntries))

PushReturns(r) == runs[r].pc = "push" /\ runs'[r].pc = "pull"
PullFails(r)   == runs[r].pc = "pull" /\ runs'[r].pc = "idle"
SaveFails(r)   == runs[r].pc = "save" /\ runs'[r].pc = "idle"

\* C11: a run whose push response reports rejected > 0 ends with the warning
\* that carries that number of rejected records
C11_RejectionEndsWithWarning ==
    [][\A r \in RunIds :
          (Persists(r) /\ runs[r].pushResponse.rejected > 0)
          => syncError' = RejectedWarning(runs[r].pushResponse.rejected)]_vars

\* C12: a run whose pull call fails after the push was answered has made one
\* push call, ends with the error of the pull, and none of its steps has
\* changed a record, in memory or in the store, or the watermark, in memory
\* or persisted
C12_PullFailureAborts ==
    [][\A r \in RunIds :
          /\ Starts(r) \/ PushReturns(r) \/ PullFails(r) =>
                UNCHANGED <<entries, dbEntries, lastSyncTime, dbLastSync>>
          /\ PullFails(r) =>
                /\ runs[r].pushCalls = 1
                /\ syncError' = ErrorThrown("pull")
                /\ ~isSyncing']_vars

\* a pull has failed after a push that accepted the record: the record is
\* pending in memory and in the store and no watermark exists
C12_Witness ==
    /\ syncError = ErrorThrown("pull")
    /\ InFlightRuns = {}
    /\ Len(pendingEntries(entries)) >= 1
    /\ \A k \in DOMAIN dbEntries : dbEntries[k].isPending
    /\ lastSyncTime = NoTime
    /\ dbLastSync = NoTime

\* C13: a run whose db.saveEntries fails ends with that error, and none of
\* its steps has changed a record, in memory or in the store, or the
\* watermark, in memory or persisted
C13_SaveFailureAborts ==
    [][\A r \in RunIds :
          /\ Starts(r) \/ PushReturns(r) \/ PullReturns(r) \/ SaveFails(r) =>
                UNCHANGED <<entries, dbEntries, lastSyncTime, dbLastSync>>
          /\ SaveFails(r) =>
                /\ syncError' = ErrorThrown("saveEntries")
                /\ ~isSyncing']_vars

\* the write of a run has failed: the records are pending in memory and in
\* the store and no watermark exists
C13_Witness ==
    /\ syncError = ErrorThrown("saveEntries")
    /\ InFlightRuns = {}
    /\ Len(pendingEntries(entries)) >= 1
    /\ \A k \in DOMAIN dbEntries : dbEntries[k].isPending
    /\ lastSyncTime = NoTime
    /\ dbLastSync = NoTime

\* C14: merging a pull result into the result of merging it once yields
\* that result again, pending flags and order included
C14_MergeIdempotent == mPhase = "twice" => mTwice = mOnce

\* a pull result that gives an id twice, in two versions, and holds an id
\* the local list does not, has been merged twice
C14_Witness ==
    /\ mPhase = "twice"
    /\ mOnce # mLocal
    /\ \E i, j \in 1..Len(mPulled) :
          /\ i < j
          /\ mPulled[i].record_id = mPulled[j].record_id
          /\ mPulled[i].payload # mPulled[j].payload
          /\ mPulled[i].record_id \notin SeqIds(mLocal)

\* ------------------------------------------- the engine in a kind environment
\* what C15 assumes: the client comes online and stays online, every gateway
\* and store call returns, the gateway accepts every record it is sent, and
\* the timer and the operator keep triggering runs
PushAccepted(r) == PushResponse(r, SeqIds(runs[r].entriesToSync), FALSE)
PullEmpty(r)    == PullResponse(r, <<>>)

NextLive ==
    \/ ClickSyncAll
    \/ IntervalTick
    \/ \E r \in RunIds : PushAccepted(r)
    \/ \E r \in RunIds : PullEmpty(r)
    \/ \E r \in RunIds : SaveDone(r)
    \/ \E r \in RunIds : AppStateDone(r)
    \/ \E payload \in LocalPayloads :
          handleLogEntry(payload, TRUE) /\ UNCHANGED timerVars
    \/ Render
    \/ setOnline
    \/ Tick

Progress ==
    /\ WF_vars(ClickSyncAll)
    /\ WF_vars(IntervalTick)
    /\ WF_vars(Render)
    /\ WF_vars(setOnline)
    /\ \A r \in RunIds :
          /\ WF_vars(PushAccepted(r))
          /\ WF_vars(PullEmpty(r))
          /\ WF_vars(SaveDone(r))
          /\ WF_vars(AppStateDone(r))

SpecLive == Init /\ [][NextLive]_vars /\ Progress

\* C15: every record handleLogEntry has stored is eventually stored with
\* isPending false
C15_EveryRecordReconciles ==
    \A id \in LocalIds :
        (id \in DOMAIN dbEntries)
        ~> (id \in DOMAIN dbEntries /\ ~dbEntries[id].isPending)

C17_ForcedRunWithNothingPending ==
    (/\ isOnline
     /\ Committed
     /\ InFlightRuns = {}
     /\ Len(pendingEntries(entries)) = 0)
    => ENABLED (handleSync(NoId, TRUE) /\ \E r \in RunIds : Starts(r))

\* C18: the step in which an idle client with pending records comes online
\* starts a run
C18_OnlineEventStartsRun ==
    [][(/\ ~isOnline
        /\ isOnline'
        /\ InFlightRuns = {}
        /\ Len(pendingEntries(entries)) > 0)
       => \E r \in RunIds : Starts(r)]_vars

ScenarioB(r) ==
    /\ Len(runs[r].entriesToSync) = 1
    /\ runs[r].pushResponse =
          PushResponseOf(SeqIds(runs[r].entriesToSync), {}, TRUE)

\* C20: a run whose push response rejects and names the one record it sent,
\* and whose pull response does not contain that record, writes the record
\* as pending, leaves the watermark, in memory and persisted, as it was, and
\* ends with the warning for one rejection
C20_ScenarioB ==
    [][\A r \in RunIds :
          /\ (PullReturns(r) /\ ScenarioB(r)) =>
                \A id \in SeqIds(runs[r].entriesToSync) :
                    id \notin SeqIds(runs'[r].pulledEntries) =>
                        id \in SeqIds(pendingEntries(runs'[r].mergedEntries))
          /\ (Commits(r) /\ runs[r].pushResponse.rejected_ids.ids # {}
                         /\ runs[r].pushResponse.accepted = 0) =>
                lastSyncTime' = lastSyncTime
          /\ (Persists(r) /\ runs[r].pushResponse.rejected_ids.ids # {}
                          /\ runs[r].pushResponse.accepted = 0) =>
                /\ dbLastSync' = dbLastSync
                /\ syncError' = RejectedWarning(1)]_vars

\* C21: no step removes a record from the store: the set of stored
\* record ids only grows
C21_StoreOnlyGrows ==
    [][DOMAIN dbEntries \subseteq DOMAIN dbEntries']_vars

\* a run has committed while the store holds a record the run did not
\* write: the record is still stored
C21_Witness ==
    \E r \in RunIds :
        /\ runs[r].pc = "appstate"
        /\ Cardinality(DOMAIN dbEntries) > Len(entries)

\* C22: after the merge every local record still carries the client_ts it
\* had before
C22_ClientTsKept ==
    mPhase # "ready" =>
        \A i \in 1..Len(mLocal) :
            \E j \in 1..Len(mOnce) :
                /\ mOnce[j].record_id = mLocal[i].record_id
                /\ mOnce[j].client_ts = mLocal[i].client_ts

\* C24: applying the push outcome keeps the list as it is but for the
\* isPending flag of records of the batch: every record keeps its other
\* fields, and a record that is not in the batch is unchanged
C24_PushOutcomeFrame ==
    \A r \in RunIds :
        runs[r].pc = "pull" =>
            /\ Len(runs[r].updatedEntries) = Len(runs[r].entries)
            /\ \A i \in 1..Len(runs[r].entries) :
                  /\ runs[r].updatedEntries[i] =
                        [runs[r].entries[i] EXCEPT
                            !.isPending = runs[r].updatedEntries[i].isPending]
                  /\ ~wasInBatch(runs[r].entriesToSync, runs[r].entries[i])
                        => runs[r].updatedEntries[i] = runs[r].entries[i]

\* the push outcome has been applied to a list that holds a pending record
\* outside the batch: the record of the batch is synced, the other pending
C24_Witness ==
    \E r \in RunIds :
        /\ runs[r].pc = "pull"
        /\ \E i, j \in 1..Len(runs[r].entries) :
              /\ wasInBatch(runs[r].entriesToSync, runs[r].entries[i])
              /\ ~runs[r].updatedEntries[i].isPending
              /\ ~wasInBatch(runs[r].entriesToSync, runs[r].entries[j])
              /\ runs[r].updatedEntries[j].isPending

\* C25: an invocation is at its pull call only after its push call has
\* returned a response for the whole batch, rejections or not, with the push
\* outcome applied; after a failed push it has returned; and the merge is
\* made on the list the push outcome was applied to
C25_PullFollowsPushResponse ==
    [][\A r \in RunIds :
          /\ (runs'[r].pc = "pull" /\ runs[r].pc # "pull") =>
                /\ runs[r].pc = "push"
                /\ runs'[r].pushResponse.accepted + runs'[r].pushResponse.rejected
                      = Len(runs[r].entriesToSync)
                /\ runs'[r].updatedEntries =
                      updatedEntries(runs[r].entries, runs[r].entriesToSync,
                                     runs'[r].pushResponse)
          /\ (runs[r].pc = "push" /\ runs'[r].pc # "push") =>
                runs'[r].pc \in {"pull", "idle"}
          /\ PullReturns(r) =>
                runs'[r].mergedEntries =
                    mergedEntries(runs[r].updatedEntries, runs'[r].pulledEntries)]_vars

\* an invocation is at its pull call after a push response that reports a
\* rejection
C25_Witness ==
    \E r \in RunIds :
        /\ runs[r].pc = "pull"
        /\ runs[r].pushResponse.rejected > 0
        /\ runs[r].pushResponse.rejected_ids.present

\* C27: an invocation for one record id sends exactly the pending record
\* with that id, starts only if that record is pending, and its push outcome
\* leaves every other record as it was
C27_SingleRecordRun ==
    [][\A r \in RunIds :
          /\ (Starts(r) /\ runs'[r].recordIdToSync # NoId) =>
                /\ Len(runs'[r].entriesToSync) = 1
                /\ runs'[r].entriesToSync[1].record_id = runs'[r].recordIdToSync
                /\ runs'[r].entriesToSync[1].isPending
                /\ \E i \in 1..Len(rendered.entries) :
                      rendered.entries[i] = runs'[r].entriesToSync[1]
          /\ (PushReturns(r) /\ runs[r].recordIdToSync # NoId) =>
                \A i \in 1..Len(runs[r].entries) :
                    runs[r].entries[i].record_id # runs[r].recordIdToSync
                    => runs'[r].updatedEntries[i] = runs[r].entries[i]]_vars

\* an invocation for one record is in flight while another record is pending
C27_Witness ==
    \E r \in RunIds :
        /\ runs[r].pc = "pull"
        /\ runs[r].recordIdToSync # NoId
        /\ Len(pendingEntries(runs[r].entries)) = 2
        /\ Len(pendingEntries(runs[r].updatedEntries)) = 1

\* C26: the watermark an invocation takes at its start, which it sends as
\* the since of its pull, is the one persisted in the app state at that
\* moment, absent when none is persisted
C26_SinceIsPersistedWatermark ==
    [][\A r \in RunIds :
          Starts(r) => runs'[r].lastSyncTime = dbLastSync]_vars

\* C28: with no invocation in flight and isSyncing false, the list in
\* memory and the store hold the same records with the same flags
C28_MemoryEqualsStoreWhenIdle ==
    (InFlightRuns = {} /\ ~isSyncing) =>
        {entries[i] : i \in 1..Len(entries)} =
            {dbEntries[k] : k \in DOMAIN dbEntries}

\* C29: a record stored with isPending false is never stored with
\* isPending true afterwards
C29_StoredSyncedStaysSynced ==
    [][\A k \in DOMAIN dbEntries :
          ~dbEntries[k].isPending =>
              (k \in DOMAIN dbEntries' /\ ~dbEntries'[k].isPending)]_vars

\* ------------------------------------------ the engine when every call ends
\* what C23 assumes: each gateway call and each store call an invocation
\* awaits returns or throws in the end; nothing else is assumed
Returns(r) ==
    \/ PushFail(r)
    \/ \E acc \in SUBSET LocalIds : \E withIds \in BOOLEAN :
          PushResponse(r, acc, withIds)
    \/ PullFail(r)
    \/ \E pulled \in SeqsUpTo(ServerEntries(runs[r].entriesToSync), MaxPull) :
          PullResponse(r, pulled)
    \/ SaveFail(r)
    \/ SaveDone(r)
    \/ AppStateFail(r)
    \/ AppStateDone(r)

SpecReturns == Init /\ [][Next]_vars /\ \A r \in RunIds : WF_vars(Returns(r))

\* C23: every invocation that has started returns in the end, whatever each
\* of its calls answers, and leaves isSyncing false as it returns; isSyncing
\* is true only while an invocation is in flight, so it never stays true
C23_RunReturnsToIdle ==
    /\ \A r \in RunIds :
          (runs[r].pc # "idle") ~> (runs[r].pc = "idle" /\ ~isSyncing)
    /\ [](isSyncing => InFlightRuns # {})

\* an invocation has returned through its catch, after a failed store write,
\* and isSyncing is false
C23_Witness ==
    /\ syncError = ErrorThrown("saveEntries")
    /\ InFlightRuns = {}
    /\ ~isSyncing
    /\ rendered = CurrentSnapshot

\* ------------------------------------------------ the interval of the effect
\* Search.tsx 242-250 with its period: the effect creates the interval when
\* the committed render is online, has a token and has pending entries; the
\* callback runs 30 seconds after the interval was created; the cleanup
\* clears the interval and the effect creates a new one whenever isOnline,
\* token, pendingEntries.length or handleSync changes, and handleSync changes
\* with entries (its useCallback dependencies, line 239)
SyncPeriod == 30

InitTimer ==
    /\ Init
    /\ isOnline

\* a record is created: the render that follows has a new pendingEntries
\* and a new handleSync, so the interval is cleared and created again
TimerLogEntry(payload) ==
    /\ handleLogEntry(payload, TRUE)
    /\ tElapsed' = 0
    /\ tWaited' = IF intervalArmed THEN tWaited ELSE 0

\* one second passes while the interval exists and no invocation is in flight
TimerPass ==
    /\ intervalArmed
    /\ InFlightRuns = {}
    /\ tElapsed < SyncPeriod
    /\ tWaited <= SyncPeriod
    /\ tElapsed' = tElapsed + 1
    /\ tWaited' = tWaited + 1
    /\ UNCHANGED <<now, reactVars, rendered, dbEntries, dbLastSync, runs, saveQ,
                   stateQ, mergeVars>>

\* the interval has existed for its period: the callback calls handleSync
TimerFire ==
    /\ intervalArmed
    /\ tElapsed = SyncPeriod
    /\ handleSync(NoId, FALSE)
    /\ tElapsed' = 0
    /\ tWaited' = 0

NextTimer ==
    \/ \E payload \in LocalPayloads : TimerLogEntry(payload)
    \/ TimerPass
    \/ TimerFire

SpecTimer == InitTimer /\ [][NextTimer]_vars

\* C30: while the client is online with a pending record and no invocation
\* in flight, the interval callback starts one within 30 seconds of the
\* moment the effect first created the interval, whatever is created
\* meanwhile
C30_PeriodicRunWithinPeriod ==
    tWaited <= SyncPeriod

====
